---------------------------- MODULE Spec2Model ----------------------------
(***************************************************************************)
(* Model of liualgotrader/trader.py: one trading session, from the         *)
(* configuration load through the market-schedule gate (ready_to_start),   *)
(* the scanners, the open positions, the historical prefetch, the shard    *)
(* assignment and the consumer / producer processes with their join and    *)
(* KeyboardInterrupt handling.                                             *)
(*                                                                         *)
(* Time is counted in whole seconds of the trading day.  Symbols are the   *)
(* integers 1..NumSymbols.  A dict is modelled by the sequence of its keys *)
(* in insertion order (minute_history) or by a function (q_id_hash,        *)
(* symbol_by_queue).  A single KeyboardInterrupt is delivered per session. *)
(***************************************************************************)
EXTENDS Integers, Sequences, FiniteSets, TLC

\* ------------------------------------------------------------------ bounds
NumSymbols == 2      \* symbols the scanners and the broker may name (Spec)
MaxScanners == 2     \* entries of conf_dict["scanners"]
MaxScanLen == 1      \* symbols returned by one scanner run
MaxPositions == 1    \* open positions returned by list_positions()
MaxTime == 2         \* latest second of the day a calendar entry names
MaxRatio == 3        \* largest config.num_consumer_processes_ratio
MaxTickers == 2      \* largest config.total_tickers
MaxUniverse == 5     \* symbols of a universe in SpecShard
MaxEvents == 2       \* market-data events the producer forwards

None == -1           \* Python's None for a timestamp

Symbols == 1..NumSymbols
Times == 0..(MaxTime + 1)

Min(a, b) == IF a < b THEN a ELSE b

\* set of the elements of a sequence
Range(s) == {s[i] : i \in 1..Len(s)}

\* all sequences over S of length at most n
SeqsUpTo(S, n) == UNION {[1..k -> S] : k \in 0..n}

\* all sequences over S without repetition, of length at most n
DistinctSeqs(S, n) ==
    {s \in SeqsUpTo(S, n) : \A i, j \in 1..Len(s) : i # j => s[i] # s[j]}

VARIABLES
    pc,                      \* position of the main program
    exit_status,             \* None while running, else the process status
    bypass_market_schedule,  \* config.bypass_market_schedule
    scanners,                \* conf_dict["scanners"], one kind per entry
    strategies,              \* conf_dict has at least one strategy
    market_open,             \* config.market_open
    market_close,            \* config.market_close
    current_dt,              \* ready_to_start: current_dt
    sleep_for,               \* argument of time.sleep, None if not called
    now,                     \* the clock when ready_to_start returned
    ready,                   \* result of ready_to_start
    calendar_lookups,        \* number of api.get_calendar calls
    scanner_idx,             \* position of the scanner loop
    scanners_run,            \* number of scanner_object.run() calls
    symbols,                 \* symbols
    scanned,                 \* history: symbols some scanner returned
    existing_positions,      \* existing_positions (symbols of the positions)
    prefetches,              \* number of bulk fetches issued
    minute_history,          \* keys of minute_history, insertion order
    num_consumer_processes,  \* _num_consumer_processes
    ratio,                   \* config.num_consumer_processes_ratio as read
    queues,                  \* queues: index -> events enqueued
    q_id_hash,               \* q_id_hash: symbol -> queue index
    symbol_by_queue,         \* symbol_by_queue: index -> symbol list
    consumers,               \* consumers: index -> process record
    producer,                \* producer process record
    join_idx,                \* consumer the join loop is waiting on
    interrupted,             \* a KeyboardInterrupt has been delivered
    events                   \* number of events the producer has handled

vars == <<pc, exit_status, bypass_market_schedule, scanners, strategies,
          market_open, market_close, current_dt, sleep_for, now, ready,
          calendar_lookups,
          scanner_idx, scanners_run, symbols, scanned, existing_positions,
          prefetches, minute_history, num_consumer_processes,
          ratio, queues, q_id_hash, symbol_by_queue, consumers, producer,
          join_idx, interrupted, events>>

gateVars == <<market_open, market_close, current_dt, sleep_for, now, ready,
              calendar_lookups>>
scanVars == <<scanner_idx, scanners_run, symbols, scanned,
              existing_positions, prefetches, minute_history>>
shardVars == <<num_consumer_processes, ratio, queues, q_id_hash,
               symbol_by_queue>>
procVars == <<consumers, producer, join_idx, events>>

NoProcess == [state |-> "none", terminated |-> FALSE, exitcode |-> None]

\* exit status of a child process that ended on its own
ExitCodes == {0, 1}

Init ==
    /\ pc = "start"
    /\ exit_status = None
    /\ bypass_market_schedule = FALSE
    /\ scanners = <<>>
    /\ strategies = FALSE
    /\ market_open = None
    /\ market_close = None
    /\ current_dt = None
    /\ sleep_for = None
    /\ now = None
    /\ ready = "unknown"
    /\ calendar_lookups = 0
    /\ scanner_idx = 1
    /\ scanners_run = 0
    /\ symbols = <<>>
    /\ scanned = {}
    /\ existing_positions = <<>>
    /\ prefetches = 0
    /\ minute_history = <<>>
    /\ num_consumer_processes = 0
    /\ ratio = 0
    /\ queues = <<>>
    /\ q_id_hash = <<>>
    /\ symbol_by_queue = <<>>
    /\ consumers = <<>>
    /\ producer = NoProcess
    /\ join_idx = 0
    /\ interrupted = FALSE
    /\ events = 0

\* ---------------------------------------------------- configuration (L126-149)
\* a scanner entry has exactly one key ("ok") or not ("badkeys")
ScannerKinds == {"ok", "badkeys"}

\* the check for strategies left out
ConfigValidNoStrategies(conf_scanners, has_strategies) ==
    /\ Len(conf_scanners) # 0
    /\ \A i \in 1..Len(conf_scanners) : conf_scanners[i] # "badkeys"

\* conf_dict passes the basic validation of lines 136-149
ConfigValid(conf_scanners, has_strategies) ==
    /\ Len(conf_scanners) # 0
    /\ has_strategies
    /\ \A i \in 1..Len(conf_scanners) : conf_scanners[i] # "badkeys"

LoadConfig ==
    /\ pc = "start"
    /\ \E b \in BOOLEAN, cs \in SeqsUpTo(ScannerKinds, MaxScanners),
          st \in BOOLEAN :
        /\ bypass_market_schedule' = b
        /\ scanners' = cs
        /\ strategies' = st
        /\ IF ConfigValid(cs, st)
             THEN pc' = "gate" /\ exit_status' = exit_status
             ELSE pc' = "exited" /\ exit_status' = 0
    /\ UNCHANGED <<gateVars, scanVars, shardVars, procVars, interrupted>>

\* ------------------------------------------- get_trading_windows (L40-65)
\* the calendar entry: days from today to the next open date, open, close
CalendarEntries ==
    {e \in [date : 0..1, open : 1..MaxTime, close : 1..MaxTime] :
        e.open < e.close}

get_trading_windows(calendar) ==
    IF 0 < calendar.date
      THEN <<None, None>>
      ELSE <<calendar.open, calendar.close>>

\* ------------------------------------------------ ready_to_start (L73-106)
\* a sleep that ends one second short of the open
SleepSecondsShort(to_market_open) == to_market_open - 1

\* argument of time.sleep on line 100
SleepSeconds(to_market_open) == to_market_open + 1

\* the bypass flag consulted only when the calendar gave no window
GateDecisionWindowFirst(bypass, m_open, m_close, dt) ==
    IF m_open # None
      THEN IF dt < m_close
             THEN IF m_open - dt > 0 THEN "sleep" ELSE "ready"
             ELSE "not_ready"
      ELSE IF bypass THEN "ready" ELSE "not_ready"

\* the comparison with the close left out
GateDecisionNoClose(bypass, m_open, m_close, dt) ==
    IF m_open # None \/ bypass
      THEN IF bypass THEN "ready"
           ELSE IF m_open - dt > 0 THEN "sleep" ELSE "ready"
      ELSE "not_ready"

\* the branch ready_to_start takes: "ready", "sleep" or "not_ready"
GateDecision(bypass, m_open, m_close, dt) ==
    IF m_open # None \/ bypass
      THEN IF bypass THEN "ready"
           ELSE IF dt < m_close
                  THEN IF m_open - dt > 0 THEN "sleep" ELSE "ready"
                  ELSE "not_ready"
      ELSE "not_ready"

\* the interrupt swallowed: the gate goes on to return True
InterruptedSleepIgnored == TRUE

\* what ready_to_start returns when the sleep is interrupted (L101-102)
InterruptedSleepResult == FALSE

\* the main program after ready_to_start returned (L158, L343)
AfterGate(result) == IF result THEN "scan" ELSE "epilogue"

GateResult(result) == IF result THEN "READY" ELSE "NOT_READY"

ReadyToStart ==
    /\ pc = "gate"
    /\ \E calendar \in CalendarEntries, dt \in Times :
        LET w == get_trading_windows(calendar)
            d == GateDecision(bypass_market_schedule, w[1], w[2], dt)
        IN  /\ calendar_lookups' = calendar_lookups + 1
            /\ market_open' = w[1]
            /\ market_close' = w[2]
            /\ current_dt' = IF w[1] # None \/ bypass_market_schedule
                               THEN dt ELSE None
            /\ CASE d = "ready" ->
                      /\ ready' = GateResult(TRUE)
                      /\ now' = dt
                      /\ sleep_for' = sleep_for
                      /\ pc' = "gate_returned"
                 [] d = "sleep" ->
                      /\ ready' = ready
                      /\ now' = now
                      /\ sleep_for' = SleepSeconds(w[1] - dt)
                      /\ pc' = "sleeping"
                 [] OTHER ->
                      /\ ready' = GateResult(FALSE)
                      /\ now' = IF current_dt' = None THEN None ELSE dt
                      /\ sleep_for' = sleep_for
                      /\ pc' = "gate_returned"
    /\ UNCHANGED <<exit_status, bypass_market_schedule, scanners, strategies,
                   scanVars,
                   shardVars, procVars, interrupted>>

\* time.sleep returns after the requested time
SleepReturn ==
    /\ pc = "sleeping"
    /\ now' = current_dt + sleep_for
    /\ ready' = GateResult(TRUE)
    /\ pc' = "gate_returned"
    /\ UNCHANGED <<exit_status, bypass_market_schedule, scanners, strategies,
                   market_open, market_close, current_dt, sleep_for,
                   calendar_lookups, scanVars, shardVars, procVars,
                   interrupted>>

\* KeyboardInterrupt raised inside time.sleep, after e seconds of sleep
SleepInterrupt ==
    /\ pc = "sleeping"
    /\ ~interrupted
    /\ \E e \in 0..(sleep_for - 1) :
        now' = current_dt + e
    /\ interrupted' = TRUE
    /\ ready' = GateResult(InterruptedSleepResult)
    /\ pc' = "gate_returned"
    /\ UNCHANGED <<exit_status, bypass_market_schedule, scanners, strategies,
                   market_open, market_close, current_dt, sleep_for,
                   calendar_lookups, scanVars, shardVars, procVars>>

\* the branch on the result of ready_to_start (L158); the locals of
\* ready_to_start are gone once it has returned
MainBranch ==
    /\ pc = "gate_returned"
    /\ pc' = AfterGate(ready = "READY")
    /\ current_dt' = None
    /\ sleep_for' = None
    /\ now' = None
    /\ UNCHANGED <<exit_status, bypass_market_schedule, scanners, strategies,
                   market_open, market_close, ready, calendar_lookups,
                   scanVars, shardVars, procVars, interrupted>>

\* ------------------------------------------------- scanners (L159-226)
\* one iteration of the scanner loop: instantiate the scanner and run it
RunScanner ==
    /\ pc = "scan"
    /\ scanner_idx <= Len(scanners)
    /\ \/ \* the instantiation fails: exit(0) on line 187, 209 or 224
          /\ pc' = "exited"
          /\ exit_status' = 0
          /\ UNCHANGED <<scanner_idx, scanners_run, symbols, scanned>>
       \/ /\ \E out \in SeqsUpTo(Symbols, MaxScanLen) :
               /\ symbols' = symbols \o out
               /\ scanned' = scanned \cup Range(out)
          /\ scanners_run' = scanners_run + 1
          /\ scanner_idx' = scanner_idx + 1
          /\ pc' = IF scanner_idx = Len(scanners)
                     THEN "positions" ELSE "scan"
          /\ exit_status' = exit_status
    /\ UNCHANGED <<bypass_market_schedule, scanners, strategies, gateVars,
                   existing_positions, prefetches, minute_history,
                   shardVars, procVars, interrupted>>

\* --------------------------------------------- open positions (L248-257)
RECURSIVE AddPositions(_, _)
AddPositions(syms, positions) ==
    IF positions = <<>>
      THEN syms
      ELSE AddPositions(IF Head(positions) \notin Range(syms)
                          THEN Append(syms, Head(positions))
                          ELSE syms,
                        Tail(positions))

AddOpenPositions ==
    /\ pc = "positions"
    /\ \E positions \in DistinctSeqs(Symbols, MaxPositions) :
        /\ existing_positions' = positions
        /\ symbols' = AddPositions(symbols, positions)
    /\ pc' = "prefetch"
    /\ UNCHANGED <<exit_status, bypass_market_schedule, scanners, strategies,
                   gateVars,
                   scanner_idx, scanners_run, scanned, prefetches,
                   minute_history, shardVars, procVars, interrupted>>

\* ------------------------------------------ historical prefetch (L262-268)
\* max_tickers argument of the bulk fetch (L265)
MaxTickersArg(total_tickers, syms) == Min(total_tickers, Len(syms))

\* get_historical_data_from_polygon: the key sequences it may return
HistoricalData(syms, max_tickers) ==
    DistinctSeqs(Range(syms), Min(max_tickers, Cardinality(Range(syms))))

\* line 268 left out: the discovered list is kept
FinalSymbolsKept(syms, history) == syms

\* symbols after line 268
FinalSymbols(syms, history) == history

\* the guard left out: the pipeline is set up for any universe
PipelineStartsAlways(syms) == TRUE

\* the guard of line 270
PipelineStarts(syms) == Len(syms) > 0

Prefetch ==
    /\ pc = "prefetch"
    /\ \E total_tickers \in 1..MaxTickers :
        \E history \in
              HistoricalData(symbols, MaxTickersArg(total_tickers, symbols)) :
            /\ minute_history' = history
            /\ symbols' = FinalSymbols(symbols, history)
    /\ prefetches' = prefetches + 1
    /\ pc' = IF PipelineStarts(symbols') THEN "assign" ELSE "epilogue"
    /\ UNCHANGED <<exit_status, bypass_market_schedule, scanners, strategies,
                   gateVars,
                   scanner_idx, scanners_run, scanned, existing_positions,
                   shardVars, procVars, interrupted>>

\* ------------------------------------------- shard assignment (L270-314)
\* floor instead of ceil
NumConsumerProcessesFloor(n, r) == n \div r

\* one more than the floor, also when r divides n
NumConsumerProcessesPlusOne(n, r) == (n \div r) + 1

\* _num_consumer_processes (L275-277): ceil(1.0 * n / ratio)
NumConsumerProcesses(n, r) ==
    IF n % r = 0 THEN n \div r ELSE (n \div r) + 1

\* list.index, counted from 0; -1 stands for ValueError
IndexOf(keys, symbol) ==
    IF symbol \in Range(keys)
      THEN (CHOOSE i \in 1..Len(keys) :
               /\ keys[i] = symbol
               /\ \A j \in 1..(i - 1) : keys[j] # symbol) - 1
      ELSE -1

\* round-robin instead of contiguous ranges
ShardIndexModulo(keys, symbol, r) ==
    IndexOf(keys, symbol) % NumConsumerProcesses(Len(keys), r)

\* _index (L286-289): int(keys.index(symbol) / ratio)
ShardIndex(keys, symbol, r) == IndexOf(keys, symbol) \div r

\* d[k] = v on a dict
DictSet(d, k, v) == [x \in DOMAIN d \cup {k} |-> IF x = k THEN v ELSE d[x]]

\* the loop of lines 285-300 from position k on; acc.q is q_id_hash and
\* acc.s is symbol_by_queue
RECURSIVE AssignLoop(_, _, _, _, _)
AssignLoop(syms, keys, r, k, acc) ==
    IF k > Len(syms)
      THEN acc
      ELSE LET symbol == syms[k]
               index == ShardIndex(keys, symbol, r)
           IN  AssignLoop(syms, keys, r, k + 1,
                 [q |-> DictSet(acc.q, symbol, index),
                  s |-> IF index \notin DOMAIN acc.s
                          THEN DictSet(acc.s, index, <<symbol>>)
                          ELSE DictSet(acc.s, index,
                                       Append(acc.s[index], symbol))])

\* every consumer handed the first queue
ConsumerArgsSharedQueue(i, sbq, history) ==
    [queue |-> 0, symbols |-> sbq[i], minute_history |-> history]

\* every consumer handed the history of the first shard only
ConsumerArgsFirstSlice(i, sbq, history) ==
    [queue |-> i, symbols |-> sbq[i], minute_history |-> sbq[0]]

\* args of consumer i (L305-311)
ConsumerArgs(i, sbq, history) ==
    [queue |-> i, symbols |-> sbq[i], minute_history |-> history]

AssignShards ==
    /\ pc = "assign"
    /\ \E r \in 1..MaxRatio :
        LET n == NumConsumerProcesses(Len(symbols), r)
            acc == AssignLoop(symbols, minute_history, r, 1,
                              [q |-> <<>>, s |-> <<>>])
        IN  /\ ratio' = r
            /\ num_consumer_processes' = n
            /\ queues' = [i \in 0..(n - 1) |-> <<>>]
            /\ IF \E k \in 1..Len(symbols) :
                       symbols[k] \notin Range(minute_history)
                 THEN \* ValueError from list.index
                      /\ pc' = "crashed"
                      /\ exit_status' = 1
                      /\ UNCHANGED <<q_id_hash, symbol_by_queue, consumers>>
                 ELSE /\ q_id_hash' = acc.q
                      /\ symbol_by_queue' = acc.s
                      /\ IF \E i \in 0..(n - 1) : i \notin DOMAIN acc.s
                           THEN \* KeyError from symbol_by_queue[i]
                                /\ pc' = "crashed"
                                /\ exit_status' = 1
                                /\ consumers' = consumers
                           ELSE /\ consumers' =
                                     [i \in 0..(n - 1) |->
                                        [state |-> "created",
                                         terminated |-> FALSE,
                                         exitcode |-> None,
                                         args |-> ConsumerArgs(
                                             i, acc.s, minute_history)]]
                                /\ pc' = IF n = 0 THEN "start_producer"
                                               ELSE "start_consumers"
                                /\ exit_status' = exit_status
    /\ UNCHANGED <<bypass_market_schedule, scanners, strategies, gateVars,
                   scanVars,
                   producer, join_idx, events, interrupted>>

\* ------------------------------------------------ processes (L315-341)
Created == {i \in DOMAIN consumers : consumers[i].state = "created"}

\* the producer started from inside the consumer loop
AfterConsumerStartEarly(not_started) == "start_producer"

\* where the main program goes after p.start(): the loop of lines 315-317
\* goes on while a consumer is not started, then the producer is started
AfterConsumerStart(not_started) ==
    IF not_started = 0 THEN "start_producer" ELSE "start_consumers"

\* one iteration of the loop of lines 315-317
StartConsumer ==
    /\ pc = "start_consumers"
    /\ Created # {}
    /\ LET i == CHOOSE c \in Created : \A d \in Created : c <= d
       IN  consumers' = [consumers EXCEPT ![i].state = "running"]
    /\ pc' = AfterConsumerStart(Cardinality(Created) - 1)
    /\ UNCHANGED <<exit_status, bypass_market_schedule, scanners, strategies,
                   gateVars,
                   scanVars, shardVars, producer, join_idx, events,
                   interrupted>>

\* args of the producer (L329)
ProducerArgs ==
    [queues |-> DOMAIN queues, symbols |-> symbols, q_id_hash |-> q_id_hash,
     market_close |-> market_close]

StartProducer ==
    /\ pc = "start_producer"
    /\ producer' = [state |-> "running", terminated |-> FALSE,
                    exitcode |-> None, args |-> ProducerArgs]
    /\ pc' = "join_producer"
    /\ UNCHANGED <<exit_status, bypass_market_schedule, scanners, strategies,
                   gateVars,
                   scanVars, shardVars, consumers, join_idx, events,
                   interrupted>>

\* a child process ends on its own
ProducerExit ==
    /\ producer.state = "running"
    /\ \E code \in ExitCodes :
        producer' = [producer EXCEPT !.state = "exited",
                                     !.exitcode = code]
    /\ UNCHANGED <<pc, exit_status, bypass_market_schedule, scanners,
                   strategies,
                   gateVars, scanVars, shardVars, consumers, join_idx,
                   events, interrupted>>

ConsumerExit ==
    /\ \E i \in DOMAIN consumers :
        /\ consumers[i].state = "running"
        /\ \E code \in ExitCodes :
            consumers' = [consumers EXCEPT ![i].state = "exited",
                                           ![i].exitcode = code]
    /\ UNCHANGED <<pc, exit_status, bypass_market_schedule, scanners,
                   strategies,
                   gateVars, scanVars, shardVars, producer, join_idx,
                   events, interrupted>>

\* a join that does not wait for the child
JoinReturnsAtOnce(p) == TRUE

\* Process.join() without timeout returns once the child has ended
JoinReturns(p) == p.state = "exited"

\* producer.join() returns (L335)
JoinProducer ==
    /\ pc = "join_producer"
    /\ JoinReturns(producer)
    /\ join_idx' = 0
    /\ pc' = IF num_consumer_processes = 0 THEN "epilogue"
                                            ELSE "join_consumers"
    /\ UNCHANGED <<exit_status, bypass_market_schedule, scanners, strategies,
                   gateVars,
                   scanVars, shardVars, consumers, producer, events,
                   interrupted>>

\* p.join() returns for the consumer the loop is at (L336-337)
JoinConsumer ==
    /\ pc = "join_consumers"
    /\ JoinReturns(consumers[join_idx])
    /\ join_idx' = join_idx + 1
    /\ pc' = IF join_idx + 1 = num_consumer_processes THEN "epilogue"
                                                       ELSE "join_consumers"
    /\ UNCHANGED <<exit_status, bypass_market_schedule, scanners, strategies,
                   gateVars,
                   scanVars, shardVars, consumers, producer, events,
                   interrupted>>

\* terminate() only for the consumers that are still running
TerminatedConsumersRunning(cs, waiting_on) ==
    {i \in DOMAIN cs : cs[i].state = "running"}

\* the consumers the handler of lines 338-341 calls terminate() on
TerminatedConsumers(cs, waiting_on) == DOMAIN cs

\* KeyboardInterrupt inside the try block of lines 334-337
JoinInterrupt ==
    /\ pc \in {"join_producer", "join_consumers"}
    /\ ~interrupted
    /\ interrupted' = TRUE
    /\ producer' = [producer EXCEPT !.terminated = TRUE]
    /\ consumers' =
          [i \in DOMAIN consumers |->
             IF i \in TerminatedConsumers(consumers, join_idx)
               THEN [consumers[i] EXCEPT !.terminated = TRUE]
               ELSE consumers[i]]
    /\ pc' = "epilogue"
    /\ UNCHANGED <<exit_status, bypass_market_schedule, scanners, strategies,
                   gateVars,
                   scanVars, shardVars, join_idx, events>>

\* KeyboardInterrupt where no handler is installed: the traceback ends the
\* main process
UncaughtPcs == {"start", "gate", "gate_returned", "scan", "positions",
                "prefetch", "assign", "start_consumers", "start_producer",
                "epilogue"}

UncaughtInterrupt ==
    /\ pc \in UncaughtPcs
    /\ ~interrupted
    /\ interrupted' = TRUE
    /\ pc' = "crashed"
    /\ exit_status' = 1
    /\ UNCHANGED <<bypass_market_schedule, scanners, strategies, gateVars,
                   scanVars,
                   shardVars, procVars>>

\* the producer handles one market-data event: it forwards it to the queue
\* the assignment map names, or drops it when the map has no entry
ProducerForward ==
    /\ producer.state = "running"
    /\ events < MaxEvents
    /\ events' = events + 1
    /\ \E s \in 1..MaxUniverse :
        IF s \in DOMAIN producer.args.q_id_hash
          THEN queues' = [queues EXCEPT
                            ![producer.args.q_id_hash[s]] = Append(@, s)]
          ELSE queues' = queues
    /\ UNCHANGED <<pc, exit_status, bypass_market_schedule, scanners,
                   strategies,
                   gateVars, scanVars, num_consumer_processes, ratio,
                   q_id_hash, symbol_by_queue, consumers, producer,
                   join_idx, interrupted>>

\* ------------------------------------------------- epilogue (L343-345)
Epilogue ==
    /\ pc = "epilogue"
    /\ pc' = "exited"
    /\ exit_status' = 0
    /\ UNCHANGED <<bypass_market_schedule, scanners, strategies, gateVars,
                   scanVars,
                   shardVars, procVars, interrupted>>

Next ==
    \/ LoadConfig
    \/ ReadyToStart
    \/ SleepReturn
    \/ SleepInterrupt
    \/ MainBranch
    \/ RunScanner
    \/ AddOpenPositions
    \/ Prefetch
    \/ AssignShards
    \/ StartConsumer
    \/ StartProducer
    \/ ProducerExit
    \/ ConsumerExit
    \/ JoinProducer
    \/ JoinConsumer
    \/ JoinInterrupt
    \/ UncaughtInterrupt
    \/ Epilogue

Spec == Init /\ [][Next]_vars

\* ------------------------------------------------------------ SpecShard
\* The shard assignment and the routing of events on every universe of up
\* to MaxUniverse symbols: the session as it stands after the prefetch.
InitShard ==
    /\ pc = "assign"
    /\ exit_status = None
    /\ bypass_market_schedule = FALSE
    /\ scanners = <<"ok">>
    /\ strategies = TRUE
    /\ market_open = 1
    /\ market_close = 2
    /\ current_dt = None
    /\ sleep_for = None
    /\ now = None
    /\ ready = "READY"
    /\ calendar_lookups = 1
    /\ scanner_idx = 2
    /\ scanners_run = 1
    /\ \E u \in DistinctSeqs(1..MaxUniverse, MaxUniverse) :
        /\ u # <<>>
        /\ symbols = u
        /\ minute_history = u
        /\ scanned = Range(u)
    /\ existing_positions = <<>>
    /\ prefetches = 1
    /\ num_consumer_processes = 0
    /\ ratio = 0
    /\ queues = <<>>
    /\ q_id_hash = <<>>
    /\ symbol_by_queue = <<>>
    /\ consumers = <<>>
    /\ producer = NoProcess
    /\ join_idx = 0
    /\ interrupted = FALSE
    /\ events = 0

NextShard ==
    \/ AssignShards
    \/ StartConsumer
    \/ StartProducer
    \/ ProducerForward

SpecShard == InitShard /\ [][NextShard]_vars


\* ------------------------------------------------------------- properties
\* the consumers and the producer exist as process objects
Assigned == pc \in {"start_consumers", "start_producer", "join_producer",
                    "join_consumers"}

\* number of positions of a list holding symbol s
Occurrences(list, s) == Cardinality({k \in 1..Len(list) : list[k] = s})

\* the symbol list handed to consumer i
ShardList(i) == consumers[i].args.symbols

\* symbols the scanners or the open positions put into the universe
Discovered == scanned \cup Range(existing_positions)

\* no child process, queue or shard has been created
NothingSpawned ==
    /\ consumers = <<>>
    /\ queues = <<>>
    /\ producer.state = "none"
    /\ num_consumer_processes = 0

\* C1: for a final universe of n symbols and a ratio r >= 1 the number of
\* queues and consumers is ceil(n / r), the least k with k * r >= n, and the
\* consumers' symbol lists partition the universe: every symbol of the
\* universe is once in exactly one list and no list holds another symbol.
C1_ShardCountAndPartition ==
    /\ pc # "crashed"
    /\ Assigned =>
         LET n == Len(symbols)
             k == num_consumer_processes
         IN  /\ k * ratio >= n
             /\ (k - 1) * ratio < n
             /\ DOMAIN queues = 0..(k - 1)
             /\ DOMAIN consumers = 0..(k - 1)
             /\ \A s \in Range(symbols) :
                    /\ Cardinality({i \in DOMAIN consumers :
                                       s \in Range(ShardList(i))}) = 1
                    /\ \A i \in DOMAIN consumers :
                           Occurrences(ShardList(i), s) <= 1
             /\ \A i \in DOMAIN consumers :
                    Range(ShardList(i)) \subseteq Range(symbols)

\* a universe of 5 symbols with ratio 2 has been cut into 3 shards
C1_Witness ==
    /\ Assigned
    /\ Len(symbols) = 5
    /\ ratio = 2
    /\ Cardinality(DOMAIN consumers) = 3

\* C2: shard i is the contiguous range of the universe from position
\* i * ratio on, the queue index the producer's map records for a symbol is
\* the queue of the one consumer whose list holds the symbol, and every
\* event on queue i is an event for a symbol of shard i.
C2_ContiguousAndRouted ==
    Assigned =>
         /\ \A i \in DOMAIN consumers :
                /\ ShardList(i) =
                     SubSeq(symbols, i * ratio + 1,
                            Min((i + 1) * ratio, Len(symbols)))
                /\ consumers[i].args.queue = i
         /\ DOMAIN q_id_hash = Range(symbols)
         /\ \A s \in Range(symbols) : \A i \in DOMAIN consumers :
                (s \in Range(ShardList(i))) <=>
                    (consumers[i].args.queue = q_id_hash[s])
         /\ producer.state # "none" =>
                /\ producer.args.q_id_hash = q_id_hash
                /\ \A i \in DOMAIN queues : \A e \in 1..Len(queues[i]) :
                       queues[i][e] \in Range(ShardList(i))

\* universe [1,2,3,4,5] with ratio 2: shards [1,2], [3,4], [5], and an event
\* for symbol 3 sits on queue 1 and on no other queue
C2_Witness ==
    /\ producer.state = "running"
    /\ symbols = <<1, 2, 3, 4, 5>>
    /\ ratio = 2
    /\ ShardList(0) = <<1, 2>>
    /\ ShardList(1) = <<3, 4>>
    /\ ShardList(2) = <<5>>
    /\ queues[1] = <<3>>
    /\ queues[0] = <<>>
    /\ queues[2] = <<>>

\* C3: a symbol the scanners returned is exactly once in the universe built
\* from the scanner outputs and the open positions (the list handed to the
\* historical prefetch).
C3_ScannedOnceInUniverse ==
    pc = "prefetch" =>
        \A s \in scanned : Occurrences(symbols, s) = 1

\* C4: once the pipeline exists, every symbol with an open position that no
\* scanner selected is in some shard's list and in the assignment map.
C4_OpenPositionsTracked ==
    Assigned =>
        \A s \in Range(existing_positions) \ scanned :
            /\ s \in DOMAIN q_id_hash
            /\ \E i \in DOMAIN consumers : s \in Range(ShardList(i))

\* C5: a discovered symbol the bulk fetch returned nothing for is in no
\* shard's list and not in the assignment map handed to the producer, and
\* the session goes on: only an interrupt ends it abnormally.
C5_NoHistoryNoShard ==
    /\ pc = "crashed" => interrupted
    /\ Assigned =>
         \A s \in Discovered \ Range(minute_history) :
            /\ s \notin DOMAIN q_id_hash
            /\ \A i \in DOMAIN consumers : s \notin Range(ShardList(i))
            /\ producer.state # "none" =>
                   s \notin DOMAIN producer.args.q_id_hash

\* the producer runs although a discovered symbol has no history
C5_Witness ==
    /\ producer.state = "running"
    /\ Discovered \ Range(minute_history) # {}
    /\ DOMAIN producer.args.q_id_hash = Range(minute_history)

\* C6 (as claimed): with the bypass the gate reports READY without waiting
\* and without any calendar lookup.
C6_BypassNoLookup ==
    (pc = "gate_returned" /\ bypass_market_schedule) =>
        /\ ready = "READY"
        /\ sleep_for = None
        /\ calendar_lookups = 0

\* C6 (amended): with the bypass the gate does the calendar lookup and then
\* reports READY at the time it read the clock, without sleeping, whatever
\* that time is and whatever entry the calendar returned.
C6_BypassReadyAfterLookup ==
    (pc = "gate_returned" /\ bypass_market_schedule) =>
        /\ ready = "READY"
        /\ sleep_for = None
        /\ now = current_dt
        /\ calendar_lookups = 1

\* bypass on a day that is no trading day, at the latest time of the clock
C6_Witness ==
    /\ pc = "gate_returned"
    /\ bypass_market_schedule
    /\ market_open = None
    /\ current_dt = MaxTime + 1
    /\ ready = "READY"

\* C7: without bypass, with no window for today or with the clock at or past
\* the close, the gate reports NOT_READY without sleeping; after NOT_READY
\* no scanner runs, no fetch is issued, nothing is spawned and the session
\* exits with status 0 unless an interrupt ends it.
C7_ClosedMarketNoSpawn ==
    /\ (/\ pc = "gate_returned"
        /\ ~bypass_market_schedule
        /\ (market_open = None \/ current_dt >= market_close)) =>
            /\ ready = "NOT_READY"
            /\ sleep_for = None
    /\ ready = "NOT_READY" =>
            /\ pc \in {"gate_returned", "epilogue", "exited", "crashed"}
            /\ scanners_run = 0
            /\ prefetches = 0
            /\ NothingSpawned
            /\ pc = "exited" => exit_status = 0
            /\ pc = "crashed" => interrupted

\* the session has exited after the gate found the clock past the close
C7_Witness ==
    /\ pc = "exited"
    /\ ready = "NOT_READY"
    /\ ~bypass_market_schedule
    /\ ~interrupted
    /\ market_open # None

\* C8: without bypass and with a window for today, a gate that finds the
\* clock before the open sleeps (open - now) + 1 seconds and then reports
\* READY, READY is never reported before the open, and with
\* open <= now < close the gate reports READY at once.
C8_WaitsUntilOpen ==
    /\ pc = "sleeping" =>
          /\ current_dt < market_open
          /\ sleep_for = (market_open - current_dt) + 1
    /\ (/\ pc = "gate_returned"
        /\ ~bypass_market_schedule
        /\ market_open # None) =>
          /\ (current_dt < market_open /\ ~interrupted) =>
                /\ ready = "READY"
                /\ sleep_for = (market_open - current_dt) + 1
                /\ now = current_dt + sleep_for
          /\ ready = "READY" => now >= market_open
          /\ (market_open <= current_dt /\ current_dt < market_close) =>
                /\ ready = "READY"
                /\ sleep_for = None
                /\ now = current_dt

\* the gate has slept until after the open and reported READY
C8_Witness ==
    /\ pc = "gate_returned"
    /\ ~bypass_market_schedule
    /\ ready = "READY"
    /\ sleep_for = (market_open - current_dt) + 1
    /\ current_dt < market_open
    /\ now = market_open + 1

\* C9: an interrupt during the gate's sleep ends the sleep early with
\* NOT_READY, and after it no scanner runs and no process is spawned.
C9_InterruptedWait ==
    /\ (pc = "gate_returned" /\ interrupted) =>
          /\ sleep_for # None
          /\ ready = "NOT_READY"
          /\ now < current_dt + sleep_for
    /\ (interrupted /\ ready # "READY") =>
          /\ scanners_run = 0
          /\ NothingSpawned

\* the session has exited after an interrupt ended the wait for the open
C9_Witness ==
    /\ pc = "exited"
    /\ interrupted
    /\ ready = "NOT_READY"
    /\ market_open # None
    /\ scanners_run = 0

\* C10: when an interrupt during the joins has been handled, terminate()
\* has been called on the producer and on every consumer, whether it had
\* exited already or was not yet waited on.
C10_InterruptTerminatesAll ==
    (/\ interrupted
     /\ producer.state # "none"
     /\ pc \in {"epilogue", "exited"}) =>
        /\ producer.terminated
        /\ DOMAIN consumers = 0..(num_consumer_processes - 1)
        /\ \A i \in DOMAIN consumers : consumers[i].terminated

\* the supervisor has returned after an interrupt that found one consumer
\* exited and a later one still running and not yet waited on
C10_Witness ==
    /\ pc = "exited"
    /\ interrupted
    /\ producer.terminated
    /\ \E i, j \in DOMAIN consumers :
          /\ consumers[i].state = "exited"
          /\ consumers[i].terminated
          /\ consumers[j].state = "running"
          /\ consumers[j].terminated
          /\ join_idx < j


\* a consumer or the producer that has been started
Started(p) == p.state \in {"running", "exited"}

\* the main program has stopped or is about to report the end of the run
Stopped == pc \in {"epilogue", "exited", "crashed"}

\* C11: after an interrupt has stopped the supervisor, no started child is
\* still running without a terminate request, wherever the interrupt came,
\* the spawn loop included.
C11_InterruptReachesStarted ==
    (interrupted /\ Stopped) =>
        /\ \A i \in DOMAIN consumers :
               consumers[i].state = "running" => consumers[i].terminated
        /\ producer.state = "running" => producer.terminated

\* C13: a pipeline exists only for a non-empty final universe and then has
\* at least one shard; with an empty final universe after the prefetch no
\* queue is created and no consumer or producer is spawned.
C13_NoPipelineForEmptyUniverse ==
    /\ Assigned =>
          /\ Len(symbols) > 0
          /\ num_consumer_processes >= 1
          /\ Cardinality(DOMAIN consumers) >= 1
    /\ (prefetches = 1 /\ symbols = <<>>) =>
          /\ Stopped
          /\ NothingSpawned

\* the session has exited after a prefetch that left no symbol of a
\* non-empty discovered universe
C13_Witness ==
    /\ pc = "exited"
    /\ exit_status = 0
    /\ prefetches = 1
    /\ symbols = <<>>
    /\ Discovered # {}

\* C14: the producer exists as a started process only when every one of the
\* consumers has been started.
C14_ProducerAfterConsumers ==
    /\ pc = "start_producer" => Created = {}
    /\ producer.state # "none" =>
          /\ DOMAIN consumers = 0..(num_consumer_processes - 1)
          /\ \A i \in DOMAIN consumers : Started(consumers[i])

\* the producer runs next to two running consumers
C14_Witness ==
    /\ producer.state = "running"
    /\ Cardinality(DOMAIN consumers) = 2
    /\ \A i \in DOMAIN consumers : consumers[i].state = "running"

\* C15: with no scanners, no strategies or a scanner entry without exactly
\* one key nothing happens after the validation, and as long as a configured
\* scanner has not been instantiated and run no fetch is issued and nothing
\* is spawned; a failed instantiation ends the session with the later
\* scanners not run.
C15_ConfigErrorStopsSession ==
    /\ (\/ scanners = <<>>
        \/ ~strategies
        \/ \E i \in 1..Len(scanners) : scanners[i] = "badkeys") =>
          /\ pc \in {"start", "exited", "crashed"}
          /\ calendar_lookups = 0
          /\ scanners_run = 0
          /\ prefetches = 0
          /\ NothingSpawned
    /\ scanners_run < Len(scanners) =>
          /\ pc \notin {"positions", "prefetch", "assign"}
          /\ ~Assigned
          /\ prefetches = 0
          /\ NothingSpawned
    /\ scanners_run = scanner_idx - 1

\* the session has exited because the second of two scanners could not be
\* instantiated, after the first one had run
C15_Witness ==
    /\ pc = "exited"
    /\ exit_status = 0
    /\ ready = "READY"
    /\ Len(scanners) = 2
    /\ scanners_run = 1

\* C16: without an interrupt the supervisor waits for the producer, then for
\* the consumers in order, it reaches the end of the run only when the
\* producer and every consumer have exited, and the status it reports is 0
\* whatever the exit codes of the children.
C16_CompletionAfterAllExited ==
    /\ pc = "join_consumers" =>
          /\ producer.state = "exited"
          /\ \A i \in DOMAIN consumers :
                 i < join_idx => consumers[i].state = "exited"
    /\ (pc \in {"epilogue", "exited"} /\ ~interrupted
            /\ producer.state # "none") =>
          /\ producer.state = "exited"
          /\ \A i \in DOMAIN consumers : consumers[i].state = "exited"
    /\ pc = "exited" => exit_status = 0

\* the run is reported completed with status 0 after the producer and one
\* of two consumers ended with a failure status
C16_Witness ==
    /\ pc = "exited"
    /\ ~interrupted
    /\ exit_status = 0
    /\ producer.exitcode = 1
    /\ Cardinality(DOMAIN consumers) = 2
    /\ consumers[0].exitcode = 0
    /\ consumers[1].exitcode = 1

\* C17: every queue is handed to exactly one consumer, the consumer of its
\* index, every consumer is handed a queue that exists, and the producer
\* holds exactly the queues that were created.
C17_OneReaderPerQueue ==
    Assigned =>
        /\ \A q \in DOMAIN queues :
               {i \in DOMAIN consumers : consumers[i].args.queue = q} = {q}
        /\ \A i \in DOMAIN consumers :
               consumers[i].args.queue \in DOMAIN queues
        /\ producer.state # "none" =>
               producer.args.queues = DOMAIN queues

\* the producer runs with three queues and three consumers
C17_Witness ==
    /\ producer.state = "running"
    /\ DOMAIN queues = 0..2
    /\ DOMAIN consumers = 0..2

\* C18 (as claimed): the history handed to consumer i holds the bars of
\* exactly the symbols of shard i.
C18_HistorySliced ==
    Assigned =>
        \A i \in DOMAIN consumers :
            Range(consumers[i].args.minute_history) = Range(ShardList(i))

\* C18 (amended): the history handed to consumer i is the whole historical
\* buffer: it holds the bars of every symbol of shard i and, with more than
\* one shard, also bars of symbols other shards own.
C18_HistoryWhole ==
    Assigned =>
        \A i \in DOMAIN consumers :
            /\ consumers[i].args.minute_history = minute_history
            /\ Range(ShardList(i)) \subseteq
                   Range(consumers[i].args.minute_history)
            /\ num_consumer_processes > 1 =>
                   \E s \in Range(consumers[i].args.minute_history) :
                       s \notin Range(ShardList(i))

\* three consumers have been created for a universe of five symbols
C18_Witness ==
    /\ Assigned
    /\ Len(minute_history) = 5
    /\ DOMAIN consumers = 0..2
    /\ consumers[2].args.minute_history = minute_history

\* C19: for a non-empty final universe symbol_by_queue has an entry for
\* every shard index, so building the consumers never fails; every shard
\* holds at least one and at most ratio symbols, and every shard but the
\* last holds exactly ratio.
C19_ShardsFilled ==
    /\ pc # "crashed"
    /\ Assigned =>
          /\ DOMAIN symbol_by_queue = 0..(num_consumer_processes - 1)
          /\ \A i \in DOMAIN consumers :
                 /\ ShardList(i) = symbol_by_queue[i]
                 /\ Len(ShardList(i)) >= 1
                 /\ Len(ShardList(i)) <= ratio
                 /\ i < num_consumer_processes - 1 =>
                        Len(ShardList(i)) = ratio

\* five symbols with ratio 3: a full shard and a last shard of two
C19_Witness ==
    /\ Assigned
    /\ ratio = 3
    /\ DOMAIN consumers = 0..1
    /\ Len(ShardList(0)) = 3
    /\ Len(ShardList(1)) = 2

\* C20: the close time handed to a spawned producer is a timestamp, never
\* None.
C20_ProducerCloseDefined ==
    producer.state # "none" => producer.args.market_close # None

=============================================================================
